---- MODULE Spec2Model ----
(***************************************************************************)
(* RLMProcessor (src/src/utils/rlm_processor.py): recursive decomposition  *)
(* and hierarchical synthesis of long documents.                           *)
(*                                                                         *)
(* Texts are modelled by position: the combined input is the character     *)
(* range [0, len) and every chunk is a sub-range of it, so a text is       *)
(* identified by where it lies in the input and its length is hi - lo      *)
(* (plus the truncation marker where one was appended).  Documents are     *)
(* taken free of the splitter's separators, which is the case in which     *)
(* RecursiveCharacterTextSplitter cuts fixed windows of chunk_size         *)
(* characters that advance by chunk_size - chunk_overlap.                  *)
(*                                                                         *)
(* One _process_recursive invocation is a frame.  Frames are named by the  *)
(* path of chunk indices that leads to them: <<>> is the depth-0           *)
(* invocation, f \o <<i>> the invocation process_chunk makes for chunk i   *)
(* of frame f.  A generative call is in flight from the step that issues   *)
(* it to the step in which it returns or raises.                           *)
(***************************************************************************)
EXTENDS Integers, Sequences, FiniteSets, TLC

VARIABLES
    self,                    \* the RLMProcessor's configuration fields
    documents,               \* process_documents argument: the documents' lengths
    processing_instruction,  \* process_documents argument
    system_prompt,           \* process_documents argument ("" is None or empty)
    pd_pc,                   \* where process_documents stands
    pd_result,               \* what process_documents returned or raised
    frames,                  \* the _process_recursive invocations, by path
    calls,                   \* every generative call issued, in issue order
    splits,                  \* every text_splitter.split_text call (the frame that made it)
    raised,                  \* the generative calls that have raised
    failures,                \* how many generative calls may raise in this run
    fn_in,                   \* the arguments of a function applied on its own
    fn_out                   \* what that function returned

vars == <<self, documents, processing_instruction, system_prompt, pd_pc,
          pd_result, frames, calls, splits, raised, failures, fn_in, fn_out>>

----------------------------------------------------------------------------
(* Program constants *)

max_tokens == 100000
inner_tokens == 20000
max_chunks == 50
batch_threshold == 20
batch_size == 10
truncate_factor == 10
SeparatorLen == 30
MarkerLen == 48

(* Bounds of the model *)

MaxFailures == 2

\* Bound of the model: the longest instruction and text, in characters, given
\* to the prompt construction of _process_single_pass.
MaxStrLen == 3

\* Bound of the model: the longest result list given to _synthesize_in_batches
\* applied on its own.
MaxResults == 60

\* Bound of the model: the longest chunk list given to the down-sampling step.
MaxChunkCount == 260

----------------------------------------------------------------------------
(* Values *)

Min(a, b) == IF a <= b THEN a ELSE b

CeilDiv(a, b) == (a + b - 1) \div b

Front(s) == SubSeq(s, 1, Len(s) - 1)

Last(s) == s[Len(s)]

RECURSIVE SumSeq(_)
SumSeq(s) == IF s = <<>> THEN 0 ELSE s[1] + SumSeq(Tail(s))

\* A piece of the input: characters lo .. hi-1, then the truncation marker if any.
Source(lo, hi, marker) ==
    [kind |-> "source", lo |-> lo, hi |-> hi, marker |-> marker, parts |-> <<>>]

\* "\n\n---\n\n".join(parts)
Joined(parts) ==
    [kind |-> "joined", lo |-> 0, hi |-> 0, marker |-> FALSE, parts |-> parts]

TextLen(t) == (t.hi - t.lo) + (IF t.marker THEN MarkerLen ELSE 0)

\* the estimate taken as the length itself, without the division
estimated_tokens_chars(t) == TextLen(t)

\* len(text) // 4
estimated_tokens(t) == TextLen(t) \div 4

Original(instruction) ==
    [kind |-> "original", instruction |-> instruction, num |-> 0, analyses |-> <<>>]

DefaultPrompt == "You are an expert analyst processing documents."

NoRequest == [system |-> "", instruction |-> Original(""), text |-> Source(0, 0, FALSE)]

\* What the generative capability answers to a request, and how it fails on one.
LLMResponse(req) == [kind |-> "llm", req |-> req]

GenerationError(req) == [kind |-> "exception", req |-> req]

EmptyString == [kind |-> "empty"]

\* no function is being applied on its own
NoArgument == [fn |-> "none"]

NoResult == [kind |-> "none"]

\* "[Chunk " + str(n) + "]\n" + body  and  "[Batch " + str(n) + "]\n" + body
Labelled(tag, n, body) == [kind |-> "labelled", tag |-> tag, n |-> n, body |-> body]

\* "[Error: " + str(e) + "]"
ErrorText(e) == [kind |-> "error", cause |-> e]

\* "[Processing failed]": the placeholder of the collecting loop, for a future whose
\* result() raises; process_chunk catches every Exception itself, so no
\* future of the pool ends that way
ProcessingFailed == [kind |-> "failed"]

Call(f, role, index, req) == [frame |-> f, role |-> role, index |-> index, req |-> req]

----------------------------------------------------------------------------
(* Inputs: a configuration and a request *)

Scenario(docs, sys, size, overlap, depth, workers) ==
    [documents |-> docs, system_prompt |-> sys, chunk_size |-> size,
     chunk_overlap |-> overlap, max_recursion_depth |-> depth, max_workers |-> workers,
     failures |-> MaxFailures]

\* a scenario with many chunks: at most one generative call raises
LargeScenario(docs, sys, size, overlap, depth, workers) ==
    [Scenario(docs, sys, size, overlap, depth, workers) EXCEPT !.failures = Min(1, MaxFailures)]

Scenarios ==
    \* inputs at or below the single-pass ceiling, constructor defaults
    { Scenario(d, s, 15000, 500, 2, 5) :
        d \in { <<>>, <<0>>, <<10>>, <<10, 20>>, <<400003>>, <<200000, 199973>>,
                <<5, 7, 9>> },
        s \in { "", "You are a real estate analyst." } }
    \cup
    \* three chunks of more than 80,000 characters, every depth limit
    { Scenario(<<400004>>, "", 150000, 0, d, w) : d \in {0, 1, 2}, w \in {1, 2, 3} }
    \cup
    \* four chunks, the last one small, more workers than chunks
    { Scenario(<<400004>>, "", 130000, 500, 2, 5) }
    \cup
    { Scenario(<<400004>>, "You are a real estate analyst.", 130000, 500, 1, 2) }
    \cup
    \* six chunks of 80,000 characters or less
    { Scenario(<<400004>>, "", 80000, 0, 2, 2) }
    \cup
    \* twenty-one chunks: more outputs than the batching threshold
    { Scenario(<<400004>>, "", 20000, 500, 2, 1) }
    \cup
    \* no recursion allowed and an input longer than ten chunk sizes
    { Scenario(<<400004>>, "", 15000, 500, 0, 5) }
    \cup
    \* four chunks of 80,004 characters (20,001 estimated tokens) and a smaller one
    { Scenario(<<400004>>, "", 80004, 0, 2, 1) }
    \cup
    \* twenty chunks: as many outputs as the batching threshold
    { LargeScenario(<<400004>>, "", 21000, 0, 2, 1) }
    \cup
    \* a chunk size above the input's length: one chunk at depth 0
    { Scenario(<<400004>>, "", 500000, 0, 2, 5) }
    \cup
    \* 120 chunks: more than the ceiling of 50
    { LargeScenario(<<480000>>, "", 4000, 0, 2, 1) }

----------------------------------------------------------------------------
(* RLMProcessor *)

\* _process_single_pass: the request that reaches the generative capability
process_single_pass(text, instruction, sys) ==
    [system |-> IF sys = "" THEN DefaultPrompt ELSE sys,
     instruction |-> instruction,
     text |-> text]

\* "\n\n--- Document Separator ---\n\n".join(documents)
combined_text(docs) ==
    Source(0, IF docs = <<>> THEN 0 ELSE SumSeq(docs) + SeparatorLen * (Len(docs) - 1),
           FALSE)

\* the empty-input return left out
no_documents_unchecked(docs) == FALSE

\* not documents
no_documents(docs) == docs = <<>>

\* the ceiling taken as exclusive
within_limits_exclusive(tokens) == tokens < max_tokens

\* estimated_tokens <= max_tokens
within_limits(tokens) == tokens <= max_tokens

\* the limit tested with > instead of >=
depth_exhausted_strict(depth) == depth > self.max_recursion_depth

\* depth >= self.max_recursion_depth
depth_exhausted(depth) == depth >= self.max_recursion_depth

\* text[:max_length] + "\n\n[Document truncated due to recursion limit...]"
truncate(text) ==
    Source(text.lo, Min(text.hi, text.lo + self.chunk_size * truncate_factor), TRUE)

\* self.text_splitter.split_text(text) on separator-free text: windows of
\* chunk_size characters advancing by chunk_size - chunk_overlap
split_text(text) ==
    LET L == text.hi - text.lo
        S == self.chunk_size
        O == self.chunk_overlap
        n == IF L = 0 THEN 0
             ELSE IF L <= S THEN 1
             ELSE 1 + CeilDiv(L - S, S - O)
    IN  [k \in 1..n |->
            Source(text.lo + (k - 1) * (S - O),
                   Min(text.lo + (k - 1) * (S - O) + S, text.hi), FALSE)]

\* every chunk kept, whatever their number
downsample_skipped(chunks) == chunks

\* the strided chunks left uncut: chunks[::step]
downsample_uncut(chunks) ==
    IF Len(chunks) > max_chunks
    THEN LET step == Len(chunks) \div max_chunks
         IN  [k \in 1..CeilDiv(Len(chunks), step) |-> chunks[(k - 1) * step + 1]]
    ELSE chunks

\* chunks[::step][:max_chunks] when len(chunks) > max_chunks
downsample(chunks) ==
    IF Len(chunks) > max_chunks
    THEN LET step == Len(chunks) \div max_chunks
             strided == [k \in 1..CeilDiv(Len(chunks), step) |-> chunks[(k - 1) * step + 1]]
         IN  SubSeq(strided, 1, Min(max_chunks, Len(strided)))
    ELSE chunks

\* the threshold taken as inclusive
should_recurse_inclusive(chunk, depth) ==
    estimated_tokens(chunk) >= inner_tokens /\ depth < self.max_recursion_depth

\* chunk_tokens > 20000 and depth < self.max_recursion_depth
should_recurse(chunk, depth) ==
    estimated_tokens(chunk) > inner_tokens /\ depth < self.max_recursion_depth

\* the nested invocation given its parent's depth
nested_depth_same(depth) == depth

\* the depth process_chunk passes to the nested _process_recursive: depth + 1
nested_depth(depth) == depth + 1

\* the parent's whole text handed down instead of the chunk
nested_text_whole(fr, i) == fr.text

\* the text process_chunk hands to the nested _process_recursive: its chunk
nested_text(fr, i) == fr.chunks[i + 1]

\* the placeholder of the second handler, "[Chunk i+1]\n[Processing failed]"
process_chunk_return_failed(i, ok, val) ==
    IF ok THEN <<i, [kind |-> "labelled", tag |-> "Chunk", n |-> i + 1, body |-> val]>>
    ELSE <<i, [kind |-> "labelled", tag |-> "Chunk", n |-> i + 1,
               body |-> [kind |-> "failed"]]>>

\* the exception let through as the result, without its label
process_chunk_return_unlabelled(i, ok, val) ==
    IF ok THEN <<i, [kind |-> "labelled", tag |-> "Chunk", n |-> i + 1, body |-> val]>>
    ELSE <<i, [kind |-> "error", cause |-> val]>>

\* process_chunk's return value: (i, "[Chunk i+1]\n" + result), or on an
\* exception (i, "[Chunk i+1]\n[Error: " + str(e) + "]")
process_chunk_return(i, ok, val) ==
    IF ok THEN <<i, Labelled("Chunk", i + 1, val)>>
    ELSE <<i, Labelled("Chunk", i + 1, ErrorText(val))>>

\* the results left in arrival order
sort_by_index_skipped(s) == s

\* chunk_results.sort(key=lambda x: x[0]): a stable sort by index; the
\* element at position j goes to the place given by the number of elements
\* that sort before it
sort_by_index(s) ==
    LET place(j) == Cardinality({m \in 1..Len(s) :
                                    \/ s[m][1] < s[j][1]
                                    \/ (s[m][1] = s[j][1] /\ m <= j)})
    IN  [k \in 1..Len(s) |-> s[CHOOSE j \in 1..Len(s) : place(j) = k]]

\* [result[1] for result in chunk_results]
texts_of(s) == [k \in 1..Len(s) |-> s[k][2]]

\* the threshold taken as inclusive
needs_batches_inclusive(results) == Len(results) >= batch_threshold

\* len(chunk_results) > 20
needs_batches(results) == Len(results) > batch_threshold

\* chunk_results[i:i + batch_size]
batch_at(results, i) == SubSeq(results, i + 1, Min(i + batch_size, Len(results)))

\* the instruction of one batch synthesis call
batch_instruction(results, i) ==
    [kind |-> "batch", instruction |-> processing_instruction,
     num |-> (i \div batch_size) + 1, analyses |-> batch_at(results, i)]

\* the request of the batch synthesis call for the batch starting at i
batch_request(results, i) ==
    process_single_pass(Joined(batch_at(results, i)), batch_instruction(results, i),
                        system_prompt)

\* the final synthesis call of _process_recursive
synthesis_request(results) ==
    process_single_pass(
        Joined(results),
        [kind |-> "synthesis", instruction |-> processing_instruction,
         num |-> 0, analyses |-> results],
        system_prompt)

NewFrame(text, depth) ==
    [text |-> text, depth |-> depth, pc |-> "new", chunks |-> <<>>,
     call |-> NoRequest, task |-> <<>>, tcall |-> <<>>,
     chunk_results |-> <<>>, completed |-> 0, results |-> <<>>,
     i |-> 0, synthesized |-> <<>>, outcome |-> NoResult]

\* _process_recursive from the return of _process_chunks_parallel up to the
\* next generative call: the first batch call, or the final synthesis call
after_parallel(f, fr, results) ==
    IF needs_batches(results)
    THEN [frame |-> [fr EXCEPT !.pc = "call_batch", !.results = results, !.i = 0,
                               !.call = batch_request(results, 0)],
          calls |-> <<Call(f, "batch", 1, batch_request(results, 0))>>,
          split |-> FALSE]
    ELSE [frame |-> [fr EXCEPT !.pc = "call_final", !.results = results,
                               !.call = synthesis_request(results)],
          calls |-> <<Call(f, "final", 0, synthesis_request(results))>>,
          split |-> FALSE]

\* a single chunk sent through the pool and the synthesis like any other list
single_chunk_never(chunks) == FALSE

\* len(chunks) == 1
single_chunk(chunks) == Len(chunks) = 1

\* _process_recursive from its entry up to its first generative call or to
\* the submission of its chunks to the thread pool
process_recursive(f, text, depth) ==
    IF depth_exhausted(depth)
    THEN LET req == process_single_pass(truncate(text), Original(processing_instruction),
                                        system_prompt)
         IN  [frame |-> [NewFrame(text, depth) EXCEPT !.pc = "call_truncated", !.call = req],
              calls |-> <<Call(f, "truncated", 0, req)>>,
              split |-> FALSE]
    ELSE LET chunks == downsample(split_text(text))
             n == Len(chunks)
             fr == [NewFrame(text, depth) EXCEPT !.chunks = chunks]
         IN  IF single_chunk(chunks)
             THEN LET req == process_single_pass(chunks[1], Original(processing_instruction),
                                                 system_prompt)
                  IN  [frame |-> [fr EXCEPT !.pc = "call_single", !.call = req],
                       calls |-> <<Call(f, "single", 0, req)>>,
                       split |-> TRUE]
             ELSE IF n = 0
             THEN [after_parallel(f, fr, <<>>) EXCEPT !.split = TRUE]
             ELSE [frame |-> [fr EXCEPT !.pc = "pool",
                                        !.task = [k \in 1..n |-> "queued"],
                                        !.tcall = [k \in 1..n |-> NoRequest]],
                   calls |-> <<>>,
                   split |-> TRUE]

----------------------------------------------------------------------------
(* State *)

Init ==
    \E sc \in Scenarios :
        /\ self = [chunk_size |-> sc.chunk_size, chunk_overlap |-> sc.chunk_overlap,
                   max_recursion_depth |-> sc.max_recursion_depth,
                   max_workers |-> sc.max_workers]
        /\ documents = sc.documents
        /\ processing_instruction = "Extract quantitative metrics."
        /\ system_prompt = sc.system_prompt
        /\ pd_pc = "ready"
        /\ pd_result = NoResult
        /\ frames = <<>>
        /\ calls = <<>>
        /\ splits = <<>>
        /\ raised = {}
        /\ failures = sc.failures
        /\ fn_in = NoArgument
        /\ fn_out = NoArgument

inputs == <<self, documents, processing_instruction, system_prompt, failures, fn_in, fn_out>>

\* A generative call may raise while the failure budget lasts.
MayFail == Cardinality(raised) < failures

\* tasks of a frame that occupy a worker thread
Running(fr) == {k \in 1..Len(fr.task) : fr.task[k] \in {"call", "nested"}}

\* every submitted task given a thread of its own
worker_free_always(fr) == TRUE

\* one worker fewer than configured
worker_free_one_less(fr) == Cardinality(Running(fr)) < self.max_workers - 1

\* ThreadPoolExecutor(max_workers): a queued task starts when a worker is free
worker_free(fr) == Cardinality(Running(fr)) < self.max_workers

\* the collecting loop without its `completed += 1`
collect_uncounted(f, fr, i, ok, val) ==
    LET got == [fr EXCEPT !.task[i + 1] = "done",
                          !.chunk_results = Append(@, process_chunk_return(i, ok, val))]
    IN  IF \A k \in 1..Len(got.task) : got.task[k] = "done"
        THEN after_parallel(f, got, texts_of(sort_by_index(got.chunk_results)))
        ELSE [frame |-> got, calls |-> <<>>, split |-> FALSE]

\* the collecting loop left at the first future handed over
collect_first(f, fr, i, ok, val) ==
    LET got == [fr EXCEPT !.task[i + 1] = "done",
                          !.completed = @ + 1,
                          !.chunk_results = Append(@, process_chunk_return(i, ok, val))]
    IN  after_parallel(f, got, texts_of(sort_by_index(got.chunk_results)))

\* process_chunk for chunk i of frame f is over: its future finishes and
\* as_completed hands it to the collecting loop (futures are handed over in the
\* order in which they finish).  After the last one the pool is left, the
\* results are sorted by index and _process_recursive goes on.
collect(f, fr, i, ok, val) ==
    LET got == [fr EXCEPT !.task[i + 1] = "done",
                          !.completed = @ + 1,
                          !.chunk_results = Append(@, process_chunk_return(i, ok, val))]
    IN  IF \A k \in 1..Len(got.task) : got.task[k] = "done"
        THEN after_parallel(f, got, texts_of(sort_by_index(got.chunk_results)))
        ELSE [frame |-> got, calls |-> <<>>, split |-> FALSE]

\* a failed frame's exception swallowed into a returned placeholder
Finish_swallowing(f, ok, val) ==
    LET out == IF ok THEN val ELSE [kind |-> "error", cause |-> val]
        done == [frames[f] EXCEPT !.pc = "returned", !.outcome = out, !.call = NoRequest]
    IN  IF f = <<>>
        THEN /\ frames' = [frames EXCEPT ![f] = done]
             /\ pd_pc' = "returned"
             /\ pd_result' = out
             /\ UNCHANGED calls
        ELSE LET p == Front(f)
                 e == collect(p, frames[p], Last(f), TRUE, out)
             IN  /\ frames' = [frames EXCEPT ![f] = done, ![p] = e.frame]
                 /\ calls' = calls \o e.calls
                 /\ UNCHANGED <<pd_pc, pd_result>>

\* the pool's queue: chunk i is the first submitted task still waiting and a
\* worker is free to take it
can_start(fr, i) ==
    /\ fr.pc = "pool"
    /\ fr.task[i + 1] = "queued"
    /\ \A k \in 1..i : fr.task[k] # "queued"
    /\ worker_free(fr)

\* A frame ends: its value goes to process_documents (depth 0) or to the
\* process_chunk that invoked it, which labels it or turns the exception
\* into a placeholder.
Finish(f, ok, val) ==
    LET done == [frames[f] EXCEPT !.pc = IF ok THEN "returned" ELSE "raised",
                                  !.outcome = val, !.call = NoRequest]
    IN  IF f = <<>>
        THEN /\ frames' = [frames EXCEPT ![f] = done]
             /\ pd_pc' = IF ok THEN "returned" ELSE "raised"
             /\ pd_result' = val
             /\ UNCHANGED calls
        ELSE LET p == Front(f)
                 e == collect(p, frames[p], Last(f), ok, val)
             IN  /\ frames' = [frames EXCEPT ![f] = done, ![p] = e.frame]
                 /\ calls' = calls \o e.calls
                 /\ UNCHANGED <<pd_pc, pd_result>>

----------------------------------------------------------------------------
(* Steps *)

\* process_documents, up to its return or its first blocking point
process_documents ==
    /\ pd_pc = "ready"
    /\ IF no_documents(documents)
       THEN /\ pd_pc' = "returned"
            /\ pd_result' = EmptyString
            /\ UNCHANGED <<frames, calls, splits>>
       ELSE IF within_limits(estimated_tokens(combined_text(documents)))
       THEN /\ pd_pc' = "call_direct"
            /\ calls' = Append(calls,
                   Call(<<>>, "direct", 0,
                        process_single_pass(combined_text(documents),
                                            Original(processing_instruction), system_prompt)))
            /\ UNCHANGED <<pd_result, frames, splits>>
       ELSE LET e == process_recursive(<<>>, combined_text(documents), 0)
            IN  /\ pd_pc' = "recursive"
                /\ frames' = (<<>> :> e.frame)
                /\ calls' = calls \o e.calls
                /\ splits' = IF e.split THEN Append(splits, <<>>) ELSE splits
                /\ UNCHANGED pd_result
    /\ UNCHANGED <<inputs, raised>>

\* the short-circuit single-pass call returns
DirectReturn ==
    /\ pd_pc = "call_direct"
    /\ pd_pc' = "returned"
    /\ pd_result' = LLMResponse(calls[Len(calls)].req)
    /\ UNCHANGED <<inputs, frames, calls, splits, raised>>

\* the short-circuit single-pass call raises
DirectRaise ==
    /\ pd_pc = "call_direct"
    /\ MayFail
    /\ pd_pc' = "raised"
    /\ pd_result' = GenerationError(calls[Len(calls)].req)
    /\ raised' = raised \cup {calls[Len(calls)]}
    /\ UNCHANGED <<inputs, frames, calls, splits>>

\* a pool worker takes the next queued chunk and runs process_chunk up to
\* its generative call or into a nested _process_recursive
TaskStart(f, i) ==
    LET fr == frames[f] IN
    /\ can_start(fr, i)
    /\ IF should_recurse(fr.chunks[i + 1], fr.depth)
       THEN LET g == f \o <<i>>
                e == process_recursive(g, nested_text(fr, i), nested_depth(fr.depth))
            IN  /\ frames' = (g :> e.frame) @@ [frames EXCEPT ![f].task[i + 1] = "nested"]
                /\ calls' = calls \o e.calls
                /\ splits' = IF e.split THEN Append(splits, g) ELSE splits
       ELSE LET req == process_single_pass(fr.chunks[i + 1],
                                           Original(processing_instruction), system_prompt)
            IN  /\ frames' = [frames EXCEPT ![f].task[i + 1] = "call",
                                            ![f].tcall[i + 1] = req]
                /\ calls' = Append(calls, Call(f, "chunk", i, req))
                /\ UNCHANGED splits
    /\ UNCHANGED <<inputs, pd_pc, pd_result, raised>>

\* a chunk's generative call returns: process_chunk returns the labelled result
ChunkReturn(f, i) ==
    LET fr == frames[f]
        e == collect(f, fr, i, TRUE, LLMResponse(fr.tcall[i + 1]))
    IN
    /\ fr.pc = "pool"
    /\ fr.task[i + 1] = "call"
    /\ frames' = [frames EXCEPT ![f] = e.frame]
    /\ calls' = calls \o e.calls
    /\ UNCHANGED <<inputs, pd_pc, pd_result, splits, raised>>

\* a chunk's generative call raises: process_chunk catches it and returns the
\* labelled placeholder
ChunkRaise(f, i) ==
    LET fr == frames[f]
        e == collect(f, fr, i, FALSE, GenerationError(fr.tcall[i + 1]))
    IN
    /\ fr.pc = "pool"
    /\ fr.task[i + 1] = "call"
    /\ MayFail
    /\ frames' = [frames EXCEPT ![f] = e.frame]
    /\ calls' = calls \o e.calls
    /\ raised' = raised \cup {Call(f, "chunk", i, fr.tcall[i + 1])}
    /\ UNCHANGED <<inputs, pd_pc, pd_result, splits>>

\* a batch synthesis call returns: its labelled summary is kept and the loop
\* goes on to the next batch, or leaves for the final synthesis call
BatchReturn(f) ==
    LET fr == frames[f]
        synthesized == Append(fr.synthesized,
                              Labelled("Batch", (fr.i \div batch_size) + 1,
                                       LLMResponse(fr.call)))
        next == fr.i + batch_size
    IN
    /\ fr.pc = "call_batch"
    /\ IF next < Len(fr.results)
       THEN /\ frames' = [frames EXCEPT ![f].synthesized = synthesized, ![f].i = next,
                                        ![f].call = batch_request(fr.results, next)]
            /\ calls' = Append(calls, Call(f, "batch", (next \div batch_size) + 1,
                                           batch_request(fr.results, next)))
       ELSE /\ frames' = [frames EXCEPT ![f] =
                            [fr EXCEPT !.synthesized = synthesized,
                                       !.pc = "call_final",
                                       !.call = synthesis_request(synthesized)]]
            /\ calls' = Append(calls, Call(f, "final", 0, synthesis_request(synthesized)))
    /\ UNCHANGED <<inputs, pd_pc, pd_result, splits, raised>>

\* a batch synthesis call raises: nothing in _synthesize_in_batches or
\* _process_recursive catches it
BatchRaise(f) ==
    /\ frames[f].pc = "call_batch"
    /\ MayFail
    /\ Finish(f, FALSE, GenerationError(frames[f].call))
    /\ raised' = raised \cup {Call(f, "batch", (frames[f].i \div batch_size) + 1, frames[f].call)}
    /\ UNCHANGED <<inputs, splits>>

\* the final synthesis call returns: _process_recursive returns its result
FinalReturn(f) ==
    /\ frames[f].pc = "call_final"
    /\ Finish(f, TRUE, LLMResponse(frames[f].call))
    /\ UNCHANGED <<inputs, splits, raised>>

\* the final synthesis call raises
FinalRaise(f) ==
    /\ frames[f].pc = "call_final"
    /\ MayFail
    /\ Finish(f, FALSE, GenerationError(frames[f].call))
    /\ raised' = raised \cup {Call(f, "final", 0, frames[f].call)}
    /\ UNCHANGED <<inputs, splits>>

\* the single call of the truncation path or of the one-chunk path returns
SingleReturn(f) ==
    /\ frames[f].pc \in {"call_truncated", "call_single"}
    /\ Finish(f, TRUE, LLMResponse(frames[f].call))
    /\ UNCHANGED <<inputs, splits, raised>>

\* the single call of the truncation path or of the one-chunk path raises
SingleRaise(f) ==
    /\ frames[f].pc \in {"call_truncated", "call_single"}
    /\ MayFail
    /\ Finish(f, FALSE, GenerationError(frames[f].call))
    /\ raised' = raised \cup
           {Call(f, IF frames[f].pc = "call_single" THEN "single" ELSE "truncated", 0,
                 frames[f].call)}
    /\ UNCHANGED <<inputs, splits>>

Tasks(f) == 0..(Len(frames[f].task) - 1)

Next ==
    \/ process_documents
    \/ DirectReturn
    \/ DirectRaise
    \/ \E f \in DOMAIN frames : \E i \in Tasks(f) : TaskStart(f, i)
    \/ \E f \in DOMAIN frames : \E i \in Tasks(f) : ChunkReturn(f, i)
    \/ \E f \in DOMAIN frames : \E i \in Tasks(f) : ChunkRaise(f, i)
    \/ \E f \in DOMAIN frames : BatchReturn(f)
    \/ \E f \in DOMAIN frames : BatchRaise(f)
    \/ \E f \in DOMAIN frames : FinalReturn(f)
    \/ \E f \in DOMAIN frames : FinalRaise(f)
    \/ \E f \in DOMAIN frames : SingleReturn(f)
    \/ \E f \in DOMAIN frames : SingleRaise(f)

Spec == Init /\ [][Next]_vars

----------------------------------------------------------------------------
(* Methods applied on their own: process_documents is not running *)

program == <<self, documents, processing_instruction, system_prompt, pd_pc,
             pd_result, frames, calls, splits, raised, failures>>

\* an RLMProcessor built with the constructor's defaults and not yet used
Idle ==
    /\ self = [chunk_size |-> 15000, chunk_overlap |-> 500,
               max_recursion_depth |-> 2, max_workers |-> 5]
    /\ documents = <<>>
    /\ processing_instruction = ""
    /\ system_prompt = ""
    /\ pd_pc = "idle"
    /\ pd_result = NoResult
    /\ frames = <<>>
    /\ calls = <<>>
    /\ splits = <<>>
    /\ raised = {}
    /\ failures = 0

\* the list split_text returned: n chunks, each named by its index
ChunksReturned(n) == [k \in 1..n |-> k - 1]

\* the down-sampling step of _process_recursive given a list of n chunks
DownsampleInit ==
    /\ Idle
    /\ \E n \in 0..MaxChunkCount : fn_in = [fn |-> "downsample", chunks |-> ChunksReturned(n)]
    /\ fn_out = NoArgument

ApplyDownsample ==
    /\ fn_in.fn = "downsample"
    /\ fn_out = NoArgument
    /\ fn_out' = [fn |-> "downsample", chunks |-> downsample(fn_in.chunks)]
    /\ UNCHANGED <<program, fn_in>>

DownsampleNext == ApplyDownsample

DownsampleSpec == DownsampleInit /\ [][DownsampleNext]_vars

----------------------------------------------------------------------------
(* _synthesize_in_batches on its own, one step per generative call.  The  *)
(* state of the loop is kept in fn_out: the call in flight, the summaries *)
(* appended so far, every call issued, how many calls are in flight and   *)
(* the most that ever were.                                               *)

\* a list of n labelled chunk outputs
ResultsCollected(n) == [k \in 1..n |-> Labelled("Chunk", k, [kind |-> "llm", req |-> k])]

\* every batch submitted at once instead of one call per loop iteration
enter_batches_all(results) ==
    LET groups == CeilDiv(Len(results), batch_size) IN
    [fn |-> "synthesize_in_batches",
     pc |-> IF results = <<>> THEN "returned" ELSE "call",
     i |-> 0,
     call |-> IF results = <<>> THEN NoRequest ELSE batch_request(results, 0),
     synthesized |-> <<>>,
     issued |-> [g \in 1..groups |-> batch_request(results, (g - 1) * batch_size)],
     in_flight |-> groups,
     most_in_flight |-> groups]

\* synthesized = []; the loop entered: the first iteration up to its call,
\* or the return of the empty list when range(0, 0, batch_size) is empty
enter_batches(results) ==
    [fn |-> "synthesize_in_batches",
     pc |-> IF results = <<>> THEN "returned" ELSE "call",
     i |-> 0,
     call |-> IF results = <<>> THEN NoRequest ELSE batch_request(results, 0),
     synthesized |-> <<>>,
     issued |-> IF results = <<>> THEN <<>> ELSE <<batch_request(results, 0)>>,
     in_flight |-> IF results = <<>> THEN 0 ELSE 1,
     most_in_flight |-> IF results = <<>> THEN 0 ELSE 1]

SynthesizeInit ==
    /\ Idle
    /\ \E n \in 0..MaxResults :
          fn_in = [fn |-> "synthesize_in_batches", chunk_results |-> ResultsCollected(n)]
    /\ fn_out = NoArgument

SynthesizeEnter ==
    /\ fn_in.fn = "synthesize_in_batches"
    /\ fn_out = NoArgument
    /\ fn_out' = enter_batches(fn_in.chunk_results)
    /\ UNCHANGED <<program, fn_in>>

\* the call of the batch starting at i returns: its summary is appended and
\* the loop goes on to the next batch's call, or the list is returned
SynthesizeBatchReturn ==
    /\ fn_in.fn = "synthesize_in_batches"
    /\ fn_out # NoArgument
    /\ fn_out.pc = "call"
    /\ LET synthesized == Append(fn_out.synthesized,
                                 Labelled("Batch", (fn_out.i \div batch_size) + 1,
                                          LLMResponse(fn_out.call)))
           next == fn_out.i + batch_size
       IN  fn_out' =
             IF next < Len(fn_in.chunk_results)
             THEN [fn_out EXCEPT !.synthesized = synthesized, !.i = next,
                                 !.call = batch_request(fn_in.chunk_results, next),
                                 !.issued = Append(@, batch_request(fn_in.chunk_results, next)),
                                 !.most_in_flight = IF fn_out.in_flight > @
                                                    THEN fn_out.in_flight ELSE @]
             ELSE [fn_out EXCEPT !.synthesized = synthesized, !.pc = "returned",
                                 !.call = NoRequest, !.in_flight = @ - 1]
    /\ UNCHANGED <<program, fn_in>>

\* the call of the batch starting at i raises: nothing catches it, the
\* exception leaves _synthesize_in_batches
SynthesizeBatchRaise ==
    /\ fn_in.fn = "synthesize_in_batches"
    /\ fn_out # NoArgument
    /\ fn_out.pc = "call"
    /\ fn_out' = [fn_out EXCEPT !.pc = "raised", !.in_flight = @ - 1]
    /\ UNCHANGED <<program, fn_in>>

SynthesizeNext == SynthesizeEnter \/ SynthesizeBatchReturn \/ SynthesizeBatchRaise

SynthesizeSpec == SynthesizeInit /\ [][SynthesizeNext]_vars

----------------------------------------------------------------------------
(* The report workflow (src/src/graph.py) as run.py runs it.  fn_out holds *)
(* the run: the node to run next, the supersteps taken, the workflow       *)
(* state's report_draft, review_feedback and revision_count, the events    *)
(* streamed so far and how often the auditor-to-writer edge was taken.     *)
(* The nodes before the writer are steps without detail; researcher and    *)
(* analyst run in one superstep.  A run that has taken recursion_limit     *)
(* supersteps without reaching END is aborted with GraphRecursionError.    *)

\* should_continue: max_revisions = 3
max_revisions == 3

\* run.py: config = {..., "recursion_limit": 10}
recursion_limit == 10

None == [kind |-> "None"]

ReviewCritique(approved, feedback) ==
    [kind |-> "ReviewCritique", approved |-> approved, feedback |-> feedback]

ReportDraft(n) == [kind |-> "ReportDraft", version |-> n]

\* the conditional edge after the auditor
should_continue(state) ==
    IF state.revision_count >= max_revisions THEN "end"
    ELSE IF state.review_feedback = None THEN "end"
    ELSE IF state.review_feedback.approved THEN "end"
    ELSE "writer"

\* run.py: initial_state
initial_state == [report_draft |-> None, review_feedback |-> None, revision_count |-> 0]

GraphInit ==
    /\ Idle
    /\ fn_in = [fn |-> "graph", state |-> initial_state, recursion_limit |-> recursion_limit]
    /\ fn_out = NoArgument

GraphRunning(node) ==
    /\ fn_in.fn = "graph"
    /\ fn_out # NoArgument
    /\ fn_out.node = node
    /\ fn_out.step < fn_in.recursion_limit

\* graph.stream(initial_state, config): the entry point is strategist
GraphStream ==
    /\ fn_in.fn = "graph"
    /\ fn_out = NoArgument
    /\ fn_out' = [fn |-> "graph", node |-> "strategist", step |-> 0, state |-> fn_in.state,
                  events |-> <<>>, revisions |-> 0, drafts |-> 0]
    /\ UNCHANGED <<program, fn_in>>

\* the fixed edges strategist -> scout -> {researcher, analyst} -> writer
Upstream ==
    /\ \E n \in {"strategist", "scout", "researcher+analyst"} :
          /\ GraphRunning(n)
          /\ fn_out' = [fn_out EXCEPT
                           !.node = IF n = "strategist" THEN "scout"
                                    ELSE IF n = "scout" THEN "researcher+analyst"
                                    ELSE "writer",
                           !.step = @ + 1,
                           !.events = Append(@, n)]
    /\ UNCHANGED <<program, fn_in>>

\* writer.agent_node returns a draft and the revision_count it found
WriterReturn ==
    /\ GraphRunning("writer")
    /\ fn_out' = [fn_out EXCEPT !.node = "auditor", !.step = @ + 1,
                                !.events = Append(@, "writer"),
                                !.drafts = @ + 1,
                                !.state.report_draft = ReportDraft(fn_out.drafts + 1),
                                !.state.revision_count = fn_out.state.revision_count]
    /\ UNCHANGED <<program, fn_in>>

\* writer.agent_node fails: except Exception returns report_draft None
WriterFail ==
    /\ GraphRunning("writer")
    /\ fn_out' = [fn_out EXCEPT !.node = "auditor", !.step = @ + 1,
                                !.events = Append(@, "writer failed"),
                                !.state.report_draft = None]
    /\ UNCHANGED <<program, fn_in>>

\* auditor.agent_node returns its critique, then should_continue picks the edge
Auditor ==
    /\ GraphRunning("auditor")
    /\ \E critique \in
            IF fn_out.state.report_draft = None
            THEN {ReviewCritique(FALSE, "No report draft available for review.")}
            ELSE {ReviewCritique(TRUE, "approved"), ReviewCritique(FALSE, "rejected"),
                  ReviewCritique(FALSE, "Error during review")} :
          LET state == [fn_out.state EXCEPT !.review_feedback = critique]
              edge == should_continue(state)
          IN  fn_out' = [fn_out EXCEPT
                           !.state = state,
                           !.step = @ + 1,
                           !.events = Append(@, "auditor: " \o critique.feedback),
                           !.node = IF edge = "writer" THEN "writer" ELSE "END",
                           !.revisions = IF edge = "writer" THEN @ + 1 ELSE @]
    /\ UNCHANGED <<program, fn_in>>

\* recursion_limit supersteps are used up and END is not reached
GraphRecursionError ==
    /\ fn_in.fn = "graph"
    /\ fn_out # NoArgument
    /\ fn_out.node \notin {"END", "GraphRecursionError"}
    /\ fn_out.step >= fn_in.recursion_limit
    /\ fn_out' = [fn_out EXCEPT !.node = "GraphRecursionError"]
    /\ UNCHANGED <<program, fn_in>>

GraphNext ==
    \/ GraphStream
    \/ Upstream
    \/ WriterReturn
    \/ WriterFail
    \/ Auditor
    \/ GraphRecursionError

GraphSpec == GraphInit /\ [][GraphNext]_vars

----------------------------------------------------------------------------
(* _process_single_pass, character by character.  A string is a sequence  *)
(* of pieces: a piece is one character, or a run of fixed text that holds *)
(* no brace.                                                              *)

Alphabet == {"{", "}", "a"}

Strings(n) == UNION {[1..m -> Alphabet] : m \in 0..n}

RECURSIVE replace(_, _, _)
\* str.replace(old, new) for a one-character old
replace(s, old, new) ==
    IF s = <<>> THEN <<>>
    ELSE (IF Head(s) = old THEN new ELSE <<Head(s)>>) \o replace(Tail(s), old, new)

\* only the opening brace doubled
escape_braces_open_only(s) == replace(s, "{", <<"{", "{">>)

\* .replace("{", "{{").replace("}", "}}")
escape_braces(s) == replace(replace(s, "{", <<"{", "{">>), "}", <<"}", "}">>)

\* the system prompt escaped like the instruction and the text
prompt_text_escaped(sys) ==
    IF sys = <<>> THEN <<"You are an expert analyst processing documents.">>
    ELSE escape_braces(sys)

\* system_prompt or "You are an expert analyst processing documents."
prompt_text(sys) ==
    IF sys = <<>> THEN <<"You are an expert analyst processing documents.">> ELSE sys

\* the human message template: the f-string around the escaped strings
human_template(instruction, text) ==
    escape_braces(instruction) \o <<"\n\nDocuments:\n">> \o escape_braces(text)
        \o <<"\n\nPlease analyze and synthesize the information according to the instruction above.">>

RECURSIVE well_formed(_, _)
\* The template formats with no variables given (chain.invoke({})): from
\* piece i on, every brace is one half of a doubled brace.  A lone "{"
\* opens a replacement field, for which invoke({}) has no value, or is
\* never closed; a lone "}" is a format error.
well_formed(t, i) ==
    IF i > Len(t) THEN TRUE
    ELSE IF t[i] \in {"{", "}"}
    THEN i < Len(t) /\ t[i + 1] = t[i] /\ well_formed(t, i + 2)
    ELSE well_formed(t, i + 1)

RECURSIVE render(_, _)
\* the formatted text of a well-formed template: "{{" gives "{", "}}" gives "}"
render(t, i) ==
    IF i > Len(t) THEN <<>>
    ELSE IF t[i] \in {"{", "}"}
    THEN <<t[i]>> \o render(t, i + 2)
    ELSE <<t[i]>> \o render(t, i + 1)

\* one message of the prompt, formatted
format(t) ==
    IF well_formed(t, 1) THEN [ok |-> TRUE, text |-> render(t, 1)]
    ELSE [ok |-> FALSE, text |-> <<>>]

\* prompt = ChatPromptTemplate.from_messages([...]); chain.invoke({}): the
\* messages that reach the model, or the error that formatting raises
format_messages(sys, instruction, text) ==
    LET system == format(prompt_text(sys))
        human == format(human_template(instruction, text))
    IN  [fn |-> "single_pass", ok |-> system.ok /\ human.ok, system |-> system, human |-> human]

PromptInit ==
    /\ Idle
    /\ \E i \in Strings(MaxStrLen), t \in Strings(MaxStrLen),
          sp \in {<<>>, <<"a">>, <<"{">>, <<"{", "a", "}">>, <<"{", "{", "a", "}", "}">>} :
            fn_in = [fn |-> "single_pass", system_prompt |-> sp, instruction |-> i, text |-> t]
    /\ fn_out = NoArgument

ApplySinglePass ==
    /\ fn_in.fn = "single_pass"
    /\ fn_out = NoArgument
    /\ fn_out' = format_messages(fn_in.system_prompt, fn_in.instruction, fn_in.text)
    /\ UNCHANGED <<program, fn_in>>

PromptNext == ApplySinglePass

PromptSpec == PromptInit /\ [][PromptNext]_vars

----------------------------------------------------------------------------
(* Properties *)

Terminated == pd_pc \in {"returned", "raised"}

\* the frames that have left the thread pool with two or more chunks
PastPool == {f \in DOMAIN frames :
                /\ Len(frames[f].chunks) >= 2
                /\ frames[f].pc \in {"call_batch", "call_final", "returned", "raised"}}

CallsOf(f, role) == {k \in 1..Len(calls) : calls[k].frame = f /\ calls[k].role = role}

\* len(combined_text) // 4, written out
InputTokens ==
    (SumSeq(documents) + 30 * (Len(documents) - 1)) \div 4

SmallInput == documents # <<>> /\ InputTokens <= 100000

\* C1: a non-empty input whose estimate is at or below 100,000 makes exactly one
\* generative call, on the whole concatenated text, never calls the chunker,
\* and process_documents returns that call's result unmodified.
C1_SmallInputSinglePass ==
    SmallInput =>
        /\ splits = <<>>
        /\ DOMAIN frames = {}
        /\ Len(calls) <= 1
        /\ pd_pc # "ready" =>
              /\ Len(calls) = 1
              /\ calls[1].req.text =
                    [kind |-> "source", lo |-> 0,
                     hi |-> SumSeq(documents) + 30 * (Len(documents) - 1),
                     marker |-> FALSE, parts |-> <<>>]
              /\ calls[1].req.instruction.instruction = processing_instruction
        /\ pd_pc = "returned" => pd_result = [kind |-> "llm", req |-> calls[1].req]

\* C1 witness: two documents that together sit exactly on the ceiling were
\* answered by one call.
C1_Witness ==
    /\ Len(documents) = 2
    /\ InputTokens = 100000
    /\ pd_pc = "returned"
    /\ Len(calls) = 1

\* C2: with no documents process_documents returns the empty string and makes
\* no generative call.
C2_EmptyDocuments ==
    documents = <<>> =>
        /\ calls = <<>>
        /\ splits = <<>>
        /\ pd_pc \in {"ready", "returned"}
        /\ pd_pc = "returned" => pd_result = [kind |-> "empty"]

\* C2 witness: the call with no documents has returned.
C2_Witness == documents = <<>> /\ pd_pc = "returned"

IsChunkLabel(r, n) == r.kind = "labelled" /\ r.tag = "Chunk" /\ r.n = n

\* C3: whatever the worker limit and the completion order, the outputs of N >= 2
\* chunks reach synthesis as N entries, entry i labelled [Chunk i+1], ascending:
\* the list _process_chunks_parallel returns, the text of a direct final
\* synthesis call, and the texts of the batch calls taken in batch order.
C3_ChunkOutputsInOrder ==
    \A f \in PastPool :
        LET fr == frames[f]
            N == Len(fr.chunks)
        IN  /\ Len(fr.results) = N
            /\ \A k \in 1..N : IsChunkLabel(fr.results[k], k)
            /\ \A c \in CallsOf(f, "final") :
                  N <= 20 =>
                     /\ Len(calls[c].req.text.parts) = N
                     /\ \A k \in 1..N : IsChunkLabel(calls[c].req.text.parts[k], k)
            /\ \A c \in CallsOf(f, "batch") :
                  LET parts == calls[c].req.text.parts
                      b == calls[c].index
                  IN  \A k \in 1..Len(parts) : IsChunkLabel(parts[k], 10 * (b - 1) + k)

\* C3 witness: chunks completed out of index order (the last of three first)
\* and the frame went on to synthesis.
C3_Witness ==
    \E f \in PastPool :
        /\ Len(frames[f].chunk_results) >= 3
        /\ frames[f].chunk_results[1][1] = Len(frames[f].chunks) - 1
        /\ frames[f].pc = "call_final"

\* the generative calls in flight: of a frame's own thread (0) or of its pool task k
InFlightSites ==
    {<<f, 0>> : f \in {g \in DOMAIN frames :
                          frames[g].pc \in {"call_truncated", "call_single",
                                            "call_batch", "call_final"}}}
    \cup UNION {{<<f, k>> : k \in {j \in 1..Len(frames[f].task) : frames[f].task[j] = "call"}} :
                  f \in DOMAIN frames}

InFlight == Cardinality(InFlightSites) + (IF pd_pc = "call_direct" THEN 1 ELSE 0)

RECURSIVE Pow(_, _)
Pow(b, e) == IF e = 0 THEN 1 ELSE b * Pow(b, e - 1)

RECURSIVE Geometric(_, _)
Geometric(b, e) == IF e = 0 THEN 1 ELSE Pow(b, e) + Geometric(b, e - 1)

\* at most 50 chunks, 5 batch calls and 1 final call for each invocation, at most
\* 50 nested invocations below each, down to max_recursion_depth
CallBound == 56 * Geometric(50, self.max_recursion_depth)

\* what has been done so far: calls issued, invocations entered and left,
\* chunks completed, and the stage of process_documents
Progress ==
    Len(calls)
    + Cardinality(DOMAIN frames)
    + Cardinality({f \in DOMAIN frames : frames[f].pc \in {"returned", "raised"}})
    + Cardinality(UNION {{<<f, k>> : k \in {j \in 1..Len(frames[f].task) :
                                                frames[f].task[j] = "done"}} :
                           f \in DOMAIN frames})
    + Cardinality({f \in DOMAIN frames : frames[f].i > 0})
    + (IF pd_pc = "ready" THEN 0 ELSE IF Terminated THEN 2 ELSE 1)

\* some thread can go on: process_documents has yet to start, a generative call
\* is in flight (and returns or fails), or a pool worker can take a chunk
CanStep ==
    \/ pd_pc = "ready"
    \/ InFlight > 0
    \/ \E f \in DOMAIN frames : \E i \in 0..(Len(frames[f].task) - 1) :
          can_start(frames[f], i)

\* C4: provided each generative call returns or fails, process_documents ends.
\* Until it has returned or raised some step can be taken, every step adds to
\* the work done, the number of generative calls stays within a bound fixed by
\* the configuration, and no invocation lies deeper than max_recursion_depth.
C4_Terminates ==
    /\ [](Terminated \/ CanStep)
    /\ [][Progress' > Progress]_vars
    /\ [](Len(calls) <= CallBound /\ Progress <= 4 * CallBound + 2)
    /\ [](\A f \in DOMAIN frames : Len(f) <= self.max_recursion_depth)

\* C4 witness: a run through nested invocations, chunk calls and the final
\* synthesis has ended.
C4_Witness ==
    /\ Terminated
    /\ \E f \in DOMAIN frames : Len(f) = 1
    /\ Len(calls) >= 4

ChunkRaised(f, k) ==
    \E c \in raised : c.frame = f /\ c.role = "chunk" /\ c.index = k - 1

\* the exception with which the nested invocation made for chunk k ended, if it did
NestedRaised(f, k) ==
    /\ (f \o <<k - 1>>) \in DOMAIN frames
    /\ frames[f \o <<k - 1>>].pc = "raised"

ChunkFailed(f, k) == ChunkRaised(f, k) \/ NestedRaised(f, k)

\* the text of chunk k's own output: the answer to its call, or the result of
\* the nested invocation made for it
OwnOutput(f, k) ==
    IF (f \o <<k - 1>>) \in DOMAIN frames
    THEN frames[f \o <<k - 1>>].outcome
    ELSE [kind |-> "llm", req |-> frames[f].tcall[k]]

\* C5: a failure in one chunk is caught at that chunk.  Its entry is a
\* placeholder under its own [Chunk N] label, every other entry is that chunk's
\* own output, no invocation ends with a chunk's error, and an invocation that
\* has gone past its batches has made its final synthesis call exactly once.
C5_ChunkFailureContained ==
    /\ \A f \in PastPool :
          LET fr == frames[f] IN
          /\ \A k \in 1..Len(fr.chunks) :
                /\ IsChunkLabel(fr.results[k], k)
                /\ ChunkFailed(f, k) => fr.results[k].body.kind \in {"error", "failed"}
                /\ ~ChunkFailed(f, k) => fr.results[k].body = OwnOutput(f, k)
          /\ fr.pc = "raised" =>
                fr.outcome.req.instruction.kind \in {"batch", "synthesis"}
          /\ fr.pc \in {"call_final", "returned"} => Cardinality(CallsOf(f, "final")) = 1
          /\ Cardinality(CallsOf(f, "final")) <= 1
    /\ (pd_pc = "raised" /\ <<>> \in PastPool) =>
          pd_result.req.instruction.kind \in {"batch", "synthesis"}

\* C5 witness: one chunk of the depth-0 invocation failed, the others did not,
\* and process_documents returned the final synthesis.
C5_Witness ==
    /\ <<>> \in PastPool
    /\ pd_pc = "returned"
    /\ Cardinality({k \in 1..Len(frames[<<>>].chunks) : ChunkFailed(<<>>, k)}) = 1
    /\ Cardinality(CallsOf(<<>>, "final")) = 1

\* C6 as stated: the placeholder of a chunk whose generative call raised is
\* exactly "[Chunk K]\n[Processing failed]".
C6_PlaceholderProcessingFailed ==
    \A f \in PastPool : \A k \in 1..Len(frames[f].chunks) :
        ChunkRaised(f, k) =>
            frames[f].results[k] =
                [kind |-> "labelled", tag |-> "Chunk", n |-> k, body |-> [kind |-> "failed"]]

\* C6 amended: the placeholder of a chunk whose generative call raised is
\* exactly "[Chunk K]\n[Error: <the error's message>]".
C6_PlaceholderError ==
    \A f \in PastPool : \A k \in 1..Len(frames[f].chunks) :
        ChunkRaised(f, k) =>
            frames[f].results[k] =
                [kind |-> "labelled", tag |-> "Chunk", n |-> k,
                 body |-> [kind |-> "error",
                           cause |-> [kind |-> "exception", req |-> frames[f].tcall[k]]]]

\* C6 witness: the generative call of chunk 2 raised and the results were collected.
C6_Witness == <<>> \in PastPool /\ ChunkRaised(<<>>, 2)

\* C7: a failure of the short-circuit single-pass call or of the depth-0 final
\* synthesis call is raised by process_documents, not turned into a placeholder.
C7_RootFailurePropagates ==
    \A c \in raised :
        (c.role = "direct" \/ (c.role = "final" /\ c.frame = <<>>)) =>
            /\ pd_pc = "raised"
            /\ pd_result = [kind |-> "exception", req |-> c.req]

\* C7 witness: the depth-0 final synthesis call raised after a pool of chunks.
C7_Witness ==
    /\ \E c \in raised : c.role = "final" /\ c.frame = <<>>
    /\ <<>> \in PastPool
    /\ pd_pc = "raised"

\* C8 as stated: a failed batch synthesis call is caught; the invocation does
\* not end with the error and process_documents does not raise because of it.
C8_BatchFailureContained ==
    \A c \in raised :
        c.role = "batch" =>
            /\ frames[c.frame].pc # "raised"
            /\ (c.frame = <<>> => pd_pc # "raised")

\* C9: in one thread pool no more than max_workers chunk-processing invocations
\* have started and not finished.
C9_PoolBounded ==
    \A f \in DOMAIN frames :
        Cardinality({k \in 1..Len(frames[f].task) : frames[f].task[k] \in {"call", "nested"}})
            <= self.max_workers

\* C9 witness: max_workers chunks are running and a further chunk waits.
C9_Witness ==
    \E f \in DOMAIN frames :
        /\ Cardinality({k \in 1..Len(frames[f].task) :
                           frames[f].task[k] \in {"call", "nested"}}) = self.max_workers
        /\ \E k \in 1..Len(frames[f].task) : frames[f].task[k] = "queued"

\* C10: during one process_documents call no more than max_workers generative
\* calls are in flight, nested invocations included.
C10_CallsInFlightBounded == InFlight <= self.max_workers

\* C10 witness: max_workers (at least two) calls are in flight and one of them
\* belongs to a nested invocation.
C10_Witness ==
    /\ InFlight = self.max_workers
    /\ InFlight >= 2
    /\ \E s \in InFlightSites : Len(s[1]) >= 1

----------------------------------------------------------------------------
\* the calls of frame f's chunk processing: the direct chunk calls of f and
\* every call of an invocation nested below f
ChunkLevelCall(f, c) ==
    \/ c.frame = f /\ c.role = "chunk"
    \/ Len(c.frame) > Len(f) /\ SubSeq(c.frame, 1, Len(f)) = f

\* C11: at every recursion level a batch synthesis call or the final
\* synthesis call is issued only when every chunk-processing invocation
\* dispatched for that level is over, with a result or a placeholder
\* collected for it: every task of the level's pool is done, every nested
\* invocation has ended, and no call of the level's chunk processing is
\* issued after a synthesis call of the level.
C11_SynthesisAfterAllChunks ==
    \A k \in 1..Len(calls) :
        calls[k].role \in {"batch", "final"} =>
            LET f == calls[k].frame
                fr == frames[f]
            IN  /\ \A j \in 1..Len(fr.task) : fr.task[j] = "done"
                /\ Len(fr.chunk_results) = Len(fr.chunks)
                /\ fr.completed = Len(fr.chunks)
                /\ \A j \in 1..Len(fr.chunks) :
                       (f \o <<j - 1>>) \in DOMAIN frames =>
                           frames[f \o <<j - 1>>].pc \in {"returned", "raised"}
                /\ \A m \in 1..Len(calls) : ChunkLevelCall(f, calls[m]) => m < k

\* C11 witness: a final synthesis call in flight after a pool of three or
\* more chunks run by several workers, one of them through a nested invocation
C11_Witness ==
    \E f \in DOMAIN frames :
        /\ frames[f].pc = "call_final"
        /\ Len(frames[f].chunks) >= 3
        /\ self.max_workers >= 2
        /\ \E j \in 1..Len(frames[f].chunks) : (f \o <<j - 1>>) \in DOMAIN frames
        /\ \E k \in CallsOf(f, "final") : \E m \in 1..(k - 1) : ChunkLevelCall(f, calls[m])

----------------------------------------------------------------------------
\* C12: every _process_recursive invocation runs at a depth between 0 and
\* max_recursion_depth; the invocation process_documents makes is at depth
\* 0 and the invocation made for a chunk is exactly one deeper than the
\* invocation whose chunk it is.
C12_DepthBoundedAndIncrementing ==
    \A f \in DOMAIN frames :
        /\ 0 <= frames[f].depth
        /\ frames[f].depth <= self.max_recursion_depth
        /\ IF f = <<>>
           THEN frames[f].depth = 0
           ELSE /\ Front(f) \in DOMAIN frames
                /\ frames[f].depth = frames[Front(f)].depth + 1
                /\ frames[f].text = frames[Front(f)].chunks[Last(f) + 1]

\* C12 witness: a nested invocation at depth 1 where max_recursion_depth is 1
C12_Witness ==
    \E f \in DOMAIN frames :
        /\ f # <<>>
        /\ frames[f].depth = 1
        /\ self.max_recursion_depth = 1
        /\ frames[f].pc = "call_truncated"

----------------------------------------------------------------------------
\* the generative calls issued by frame f itself
OwnCalls(f) == {k \in 1..Len(calls) : calls[k].frame = f}

\* C13: an invocation whose depth has reached max_recursion_depth never
\* calls the chunker and dispatches no parallel work (no chunks, no tasks,
\* no nested invocation); it makes exactly one generative call, on the
\* first chunk_size * 10 characters of its input followed by the
\* truncation marker.
C13_DepthLimitTruncates ==
    \A f \in DOMAIN frames :
        frames[f].depth >= self.max_recursion_depth =>
            /\ \A k \in 1..Len(splits) : splits[k] # f
            /\ frames[f].chunks = <<>>
            /\ frames[f].task = <<>>
            /\ \A g \in DOMAIN frames : Len(g) > Len(f) => SubSeq(g, 1, Len(f)) # f
            /\ Cardinality(OwnCalls(f)) = 1
            /\ \A k \in OwnCalls(f) :
                   /\ calls[k].role = "truncated"
                   /\ calls[k].req.text.lo = frames[f].text.lo
                   /\ calls[k].req.text.hi =
                          Min(frames[f].text.hi, frames[f].text.lo + self.chunk_size * 10)
                   /\ calls[k].req.text.marker = TRUE
                   /\ TextLen(calls[k].req.text) =
                          Min(TextLen(frames[f].text), self.chunk_size * 10) + 48

\* C13 witness: the depth-0 invocation with max_recursion_depth = 0 has
\* returned after its one call on an input longer than ten chunk sizes
C13_Witness ==
    /\ <<>> \in DOMAIN frames
    /\ self.max_recursion_depth = 0
    /\ TextLen(frames[<<>>].text) > self.chunk_size * 10
    /\ frames[<<>>].pc = "returned"
    /\ Cardinality(OwnCalls(<<>>)) = 1

----------------------------------------------------------------------------
\* the frames whose split_text call generated 120 chunks
Generated120 ==
    {f \in DOMAIN frames :
        /\ \E k \in 1..Len(splits) : splits[k] = f
        /\ Len(split_text(frames[f].text)) = 120}

\* the frames that have got past batch synthesis
PastBatches == {f \in DOMAIN frames : frames[f].pc \in {"call_final", "returned"}}

----------------------------------------------------------------------------
\* C18: when the chunker returns n > 50 chunks, exactly 50 are kept after
\* down-sampling, each of them one of the n chunks, in their original
\* relative order.
C18_KeepsExactlyCeiling ==
    (fn_out.fn = "downsample" /\ Len(fn_in.chunks) > 50) =>
        /\ Len(fn_out.chunks) = 50
        /\ \A k \in 1..Len(fn_out.chunks) : fn_out.chunks[k] \in 0..(Len(fn_in.chunks) - 1)
        /\ \A j, k \in 1..Len(fn_out.chunks) : j < k => fn_out.chunks[j] < fn_out.chunks[k]

\* C18 witness: 99 chunks have been down-sampled
C18_Witness ==
    /\ fn_out.fn = "downsample"
    /\ Len(fn_in.chunks) = 99
    /\ Len(fn_out.chunks) = 50

\* C19 as stated: when the chunker returns n > 50 chunks, consecutive kept
\* chunks are one stride (n / 50, in whole chunks) apart and fewer than one
\* stride of chunks are dropped after the last kept chunk.
C19_EvenlySpaced ==
    (fn_out.fn = "downsample" /\ Len(fn_in.chunks) > 50) =>
        LET n == Len(fn_in.chunks)
            kept == fn_out.chunks
            stride == n \div 50
        IN  /\ \A k \in 1..(Len(kept) - 1) : kept[k + 1] - kept[k] = stride
            /\ (n - 1) - kept[Len(kept)] < stride

----------------------------------------------------------------------------
\* the direct generative calls made for chunk k (1-based) of frame f
DirectChunkCalls(f, k) ==
    {m \in 1..Len(calls) :
        calls[m].frame = f /\ calls[m].role = "chunk" /\ calls[m].index = k - 1}

\* C20: in the parallel chunk processing of an invocation at depth d, a
\* chunk that a worker has taken is handed to a new invocation at depth
\* d + 1 if and only if its size estimate (length \div 4) exceeds 20,000 and
\* d < max_recursion_depth; every other chunk is processed by exactly one
\* direct generative call on the chunk, and a handed-over chunk by none.
C20_RecurseIffLargeAndShallow ==
    \A f \in DOMAIN frames :
        \A k \in 1..Len(frames[f].task) :
            LET fr == frames[f]
                g == f \o <<k - 1>>
                large == (TextLen(fr.chunks[k]) \div 4) > 20000
                shallow == fr.depth < self.max_recursion_depth
            IN  IF fr.task[k] = "queued"
                THEN g \notin DOMAIN frames /\ DirectChunkCalls(f, k) = {}
                ELSE /\ (g \in DOMAIN frames) <=> (large /\ shallow)
                     /\ g \in DOMAIN frames =>
                            /\ frames[g].depth = fr.depth + 1
                            /\ frames[g].text = fr.chunks[k]
                            /\ DirectChunkCalls(f, k) = {}
                     /\ g \notin DOMAIN frames =>
                            /\ Cardinality(DirectChunkCalls(f, k)) = 1
                            /\ \A m \in DirectChunkCalls(f, k) :
                                   calls[m].req.text = fr.chunks[k]

\* C20 witness: a pool is over in which a chunk of 80,004 characters
\* (20,001 estimated tokens) went to a nested invocation and a smaller
\* chunk to a direct call
C20_Witness ==
    \E f \in DOMAIN frames :
        /\ frames[f].pc = "call_final"
        /\ \E j, k \in 1..Len(frames[f].task) :
               /\ TextLen(frames[f].chunks[j]) = 80004
               /\ (f \o <<j - 1>>) \in DOMAIN frames
               /\ TextLen(frames[f].chunks[k]) < 80004
               /\ Cardinality(DirectChunkCalls(f, k)) = 1

----------------------------------------------------------------------------
\* C16: for every instruction and text, braces included, formatting the
\* human message never fails and gives, character for character, the
\* original instruction, the fixed "Documents:" line, the original text and
\* the fixed closing line: escaping followed by template substitution is the
\* identity and no brace of the instruction or text opens a template variable.
C16_EscapeRoundTrip ==
    fn_out.fn = "single_pass" =>
        /\ fn_out.human.ok
        /\ fn_out.human.text =
               fn_in.instruction \o <<"\n\nDocuments:\n">> \o fn_in.text
                   \o <<"\n\nPlease analyze and synthesize the information according to the instruction above.">>

\* C16 witness: a prompt has been built from an instruction and a text that
\* hold braces of both kinds, one pair looking like a template variable
C16_Witness ==
    /\ fn_out.fn = "single_pass"
    /\ fn_in.instruction = <<"{", "a", "}">>
    /\ fn_in.text = <<"}", "{">>
    /\ fn_out.human.ok
    /\ Len(fn_out.human.text) = 7

----------------------------------------------------------------------------
\* the frames whose split, after down-sampling, gave exactly one chunk
OneChunk ==
    {f \in DOMAIN frames :
        /\ \E k \in 1..Len(splits) : splits[k] = f
        /\ Len(frames[f].chunks) = 1}

\* C21: an invocation whose split (after down-sampling) yields exactly one
\* chunk makes exactly one generative call, on that chunk and with the
\* original instruction; it makes no batch or final synthesis call, submits
\* no task and starts no nested invocation; what it returns is the call's
\* result itself, with no [Chunk 1] label (at depth 0 it is what
\* process_documents returns).
C21_SingleChunkDirect ==
    \A f \in OneChunk :
        /\ Cardinality(OwnCalls(f)) = 1
        /\ \A k \in OwnCalls(f) :
               /\ calls[k].role = "single"
               /\ calls[k].req.text = frames[f].chunks[1]
               /\ calls[k].req.instruction = Original(processing_instruction)
               /\ frames[f].pc = "returned" => frames[f].outcome = LLMResponse(calls[k].req)
               /\ (frames[f].pc = "returned" /\ f = <<>>) =>
                      pd_pc = "returned" /\ pd_result = LLMResponse(calls[k].req)
        /\ frames[f].task = <<>>
        /\ frames[f].chunk_results = <<>>
        /\ \A g \in DOMAIN frames : Len(g) > Len(f) => SubSeq(g, 1, Len(f)) # f

\* C21 witness: process_documents has returned the result of the one call
\* of a depth-0 invocation that split its input into one chunk
C21_Witness ==
    /\ <<>> \in OneChunk
    /\ frames[<<>>].pc = "returned"
    /\ pd_pc = "returned"
    /\ pd_result.kind = "llm"

----------------------------------------------------------------------------
\* C22: an invocation that has left its pool calls _synthesize_in_batches
\* (makes a batch synthesis call) if and only if it collected more than 20
\* chunk outputs; with 20 or fewer its final synthesis call is made
\* directly on the labelled chunk outputs, joined in order.
C22_BatchesIffMoreThanTwenty ==
    \A f \in PastPool :
        /\ (CallsOf(f, "batch") # {}) <=> (Len(frames[f].results) > 20)
        /\ Len(frames[f].results) <= 20 =>
               /\ frames[f].synthesized = <<>>
               /\ Cardinality(CallsOf(f, "final")) = 1
               /\ \A k \in CallsOf(f, "final") :
                      /\ calls[k].req.text = Joined(frames[f].results)
                      /\ \A j \in 1..Len(frames[f].results) :
                             IsChunkLabel(frames[f].results[j], j)

\* C22 witness: the final synthesis call of an invocation with exactly 20
\* chunk outputs is in flight and no batch call was made
C22_Witness ==
    \E f \in PastPool :
        /\ Len(frames[f].results) = 20
        /\ frames[f].pc = "call_final"
        /\ CallsOf(f, "batch") = {}

----------------------------------------------------------------------------
\* _synthesize_in_batches, applied on its own, is over
SynthesizeOver ==
    /\ fn_in.fn = "synthesize_in_batches"
    /\ fn_out # NoArgument
    /\ fn_out.pc \in {"returned", "raised"}

\* the calls issued partition the results into ceil(n / 10) contiguous groups
\* in order, all but the last of exactly 10, one call per group
PartitionedInTens(results, issued) ==
    LET n == Len(results)
        groups == CeilDiv(n, 10)
    IN  /\ Len(issued) = groups
        /\ \A g \in 1..groups :
               /\ g < groups => Len(issued[g].text.parts) = 10
               /\ Len(issued[g].text.parts) \in 1..10
        /\ \A k \in 1..n :
               issued[((k - 1) \div 10) + 1].text.parts[((k - 1) % 10) + 1] = results[k]
        /\ SumSeq([g \in 1..groups |-> Len(issued[g].text.parts)]) = n

\* C23 as stated: for every list of n results, when _synthesize_in_batches
\* is over it has partitioned the list into ceil(n / 10) contiguous groups
\* in order (all but the last of exactly 10, together the whole list), has
\* made exactly one generative call per group and has returned one summary
\* per group, in group order, the k-th labelled [Batch k].
C23_OneCallAndSummaryPerGroup ==
    SynthesizeOver =>
        /\ fn_out.pc = "returned"
        /\ PartitionedInTens(fn_in.chunk_results, fn_out.issued)
        /\ Len(fn_out.synthesized) = CeilDiv(Len(fn_in.chunk_results), 10)
        /\ \A g \in 1..Len(fn_out.synthesized) :
               fn_out.synthesized[g] = Labelled("Batch", g, LLMResponse(fn_out.issued[g]))

----------------------------------------------------------------------------
\* the frames that dispatched two or more chunks and have ended
EndedAfterPool ==
    {f \in DOMAIN frames :
        Len(frames[f].chunks) >= 2 /\ frames[f].pc \in {"returned", "raised"}}

\* C25 as stated: every invocation that dispatched two or more chunks has,
\* when it ends, made exactly one final synthesis call, its last call, on
\* the joined chunk outputs or (after batch synthesis) the joined batch
\* summaries; that call is a direct single pass on the untruncated joined
\* text, with no further split_text call and no invocation nested for it.
C25_EndsWithOneFinalCall ==
    \A f \in EndedAfterPool :
        /\ Cardinality(CallsOf(f, "final")) = 1
        /\ \A k \in CallsOf(f, "final") :
               /\ \A m \in OwnCalls(f) : m <= k
               /\ calls[k].req.text =
                      Joined(IF needs_batches(frames[f].results)
                             THEN frames[f].synthesized ELSE frames[f].results)
               /\ calls[k].req.text.marker = FALSE
        /\ Cardinality({k \in 1..Len(splits) : splits[k] = f}) = 1
        /\ \A g \in DOMAIN frames :
               (Len(g) > Len(f) /\ SubSeq(g, 1, Len(f)) = f) =>
                   g[Len(f) + 1] \in 0..(Len(frames[f].chunks) - 1)

\* the tasks of a frame whose process_chunk is over
DoneTasks(fr) == {k \in 1..Len(fr.task) : fr.task[k] = "done"}

\* C26: the completed count of a pool is never the target of a lost
\* update: it equals the number of chunks whose processing is over and the
\* number of entries in the results buffer, every step leaves it unchanged
\* or adds exactly 1 to it, for exactly one chunk that completes in that
\* step, and when the executor has returned it equals the number of
\* dispatched chunks and the buffer holds exactly one entry per chunk.
C26_CompletedCountExact ==
    /\ [](\A f \in DOMAIN frames :
             LET fr == frames[f] IN
             /\ fr.completed = Cardinality(DoneTasks(fr))
             /\ fr.completed = Len(fr.chunk_results)
             /\ \A j, k \in 1..Len(fr.chunk_results) :
                    j # k => fr.chunk_results[j][1] # fr.chunk_results[k][1]
             /\ f \in PastPool =>
                    /\ fr.completed = Len(fr.chunks)
                    /\ {fr.chunk_results[k][1] : k \in 1..Len(fr.chunk_results)}
                           = 0..(Len(fr.chunks) - 1)
                    /\ Len(fr.results) = Len(fr.chunks))
    /\ [][\A f \in DOMAIN frames :
             /\ f \in DOMAIN frames'
             /\ frames'[f].completed - frames[f].completed =
                    Cardinality(DoneTasks(frames'[f]) \ DoneTasks(frames[f]))
             /\ frames'[f].completed - frames[f].completed \in {0, 1}
             /\ DoneTasks(frames[f]) \subseteq DoneTasks(frames'[f])]_vars

\* C26 witness: two chunk calls of one pool are in flight together after
\* another chunk completed, and later the pool is left
C26_Witness ==
    \E f \in DOMAIN frames :
        /\ frames[f].pc = "pool"
        /\ frames[f].completed >= 1
        /\ Cardinality(Running(frames[f])) >= 2
        /\ self.max_workers >= 2

----------------------------------------------------------------------------
\* the number of chunks of the depth-0 invocation, when it dispatched two
\* or more chunks and none of them went to a nested invocation; 0 otherwise
FlatChunks ==
    IF /\ <<>> \in DOMAIN frames
       /\ Len(frames[<<>>].chunks) >= 2
       /\ DOMAIN frames = {<<>>}
       /\ \A k \in 1..Len(frames[<<>>].chunks) :
              ~should_recurse(frames[<<>>].chunks[k], 0)
    THEN Len(frames[<<>>].chunks)
    ELSE 0

\* C28 as stated: when process_documents is over after a depth-0
\* invocation on n >= 2 chunks, none of which recursed, the generative calls
\* made number n + 1 when n <= 20 and n + ceil(n / 10) + 1 when n > 20,
\* whether or not chunk calls failed, and never more than 56.
C28_CallCount ==
    (Terminated /\ FlatChunks >= 2) =>
        /\ Len(calls) = IF FlatChunks <= 20
                        THEN FlatChunks + 1
                        ELSE FlatChunks + CeilDiv(FlatChunks, 10) + 1
        /\ Len(calls) <= 56

\* C29: with max_recursion_depth >= 1 and chunk_size <= 80,000, and no chunk
\* longer than chunk_size, no chunk is handed to a nested invocation: every
\* invocation is the depth-0 one, and no truncated call is made.
C29_NoRecursionForSmallChunks ==
    (/\ self.max_recursion_depth >= 1
     /\ self.chunk_size <= 80000
     /\ \A f \in DOMAIN frames : \A k \in 1..Len(frames[f].chunks) :
            TextLen(frames[f].chunks[k]) <= self.chunk_size) =>
        /\ \A f \in DOMAIN frames :
               /\ f = <<>>
               /\ frames[f].depth = 0
               /\ frames[f].pc # "call_truncated"
               /\ \A k \in 1..Len(frames[f].task) : frames[f].task[k] # "nested"
        /\ \A k \in 1..Len(calls) : calls[k].role # "truncated" /\ calls[k].frame = <<>>

\* C29 witness: with chunk_size = 80,000 a pool of chunks of exactly 80,000
\* characters has been processed and the final synthesis call is in flight
C29_Witness ==
    /\ self.chunk_size = 80000
    /\ self.max_recursion_depth >= 1
    /\ <<>> \in DOMAIN frames
    /\ frames[<<>>].pc = "call_final"
    /\ \E k \in 1..Len(frames[<<>>].chunks) : TextLen(frames[<<>>].chunks[k]) = 80000
    /\ Cardinality(CallsOf(<<>>, "chunk")) = Len(frames[<<>>].chunks)

----------------------------------------------------------------------------
\* a maximal run of one brace character, of odd length: some brace of s is
\* not one half of a doubled brace
OddBraceRun(s) ==
    \E i \in 1..Len(s) : \E j \in i..Len(s) :
        /\ s[i] \in {"{", "}"}
        /\ \A k \in i..j : s[k] = s[i]
        /\ i = 1 \/ s[i - 1] # s[i]
        /\ j = Len(s) \/ s[j + 1] # s[i]
        /\ (j - i + 1) % 2 = 1

\* C30 as stated: for every system prompt, braces included, a single-pass
\* call does not fail and delivers the system prompt as literal text; with
\* no system prompt, or an empty one, it delivers the default directive.
C30_SystemPromptLiteral ==
    fn_out.fn = "single_pass" =>
        /\ fn_out.ok
        /\ fn_out.system.text =
               IF fn_in.system_prompt = <<>>
               THEN <<"You are an expert analyst processing documents.">>
               ELSE fn_in.system_prompt

\* C30 amended: the system prompt is not escaped but used as a template.
\* With no system prompt, or an empty one, the default directive is
\* delivered; a system prompt without braces is delivered as it is; one
\* whose braces are all doubled is delivered with each doubled brace as a
\* single brace; and a system prompt with a lone brace (a {name} field
\* included) makes the call fail at formatting: nothing is delivered.
C30_SystemPromptIsTemplate ==
    fn_out.fn = "single_pass" =>
        LET sp == fn_in.system_prompt IN
        /\ fn_out.system.ok <=> ~OddBraceRun(sp)
        /\ fn_out.ok <=> fn_out.system.ok
        /\ (sp = <<>>) =>
               fn_out.system.text = <<"You are an expert analyst processing documents.">>
        /\ (sp # <<>> /\ \A k \in 1..Len(sp) : sp[k] \notin {"{", "}"}) =>
               fn_out.system.text = sp
        /\ (sp # <<>> /\ fn_out.system.ok) =>
               /\ escape_braces(fn_out.system.text) = sp
               /\ Len(sp) - Len(fn_out.system.text) * 2 =
                      - Cardinality({k \in 1..Len(fn_out.system.text) :
                                       fn_out.system.text[k] \notin {"{", "}"}})

\* C30 witness: a call whose system prompt holds a {name} field has failed
\* at formatting, with an instruction and a text that hold braces too
C30_Witness ==
    /\ fn_out.fn = "single_pass"
    /\ fn_in.system_prompt = <<"{", "a", "}">>
    /\ fn_in.instruction = <<"{">>
    /\ fn_in.text = <<"}">>
    /\ ~fn_out.ok
    /\ fn_out.human.ok

----------------------------------------------------------------------------
\* the workflow run is over
GraphOver ==
    /\ fn_in.fn = "graph"
    /\ fn_out # NoArgument
    /\ fn_out.node \in {"END", "GraphRecursionError"}

\* C27 as stated: in every run of the report workflow, runs in which the
\* auditor rejects every draft or the writer fails every time included, the
\* edge from the auditor back to the writer is taken at most max_revisions
\* (3) times and the run ends by reaching END.
C27_RevisionLoopBounded ==
    (fn_in.fn = "graph" /\ fn_out # NoArgument) =>
        /\ fn_out.revisions <= 3
        /\ GraphOver => fn_out.node = "END"

====
